---- MODULE Spec2Model ----
(***************************************************************************)
(* Pull Request Bot (src/webhooks/server.py): the rule registry and        *)
(* _qualify_description, the Github API client, the two pull request       *)
(* handlers, the event dispatcher and the /github/payload endpoint.        *)
(*                                                                         *)
(* Text is modelled character by character: a Python str is a sequence of  *)
(* one-character strings, so that splitting, substring search, joining and *)
(* formatting are computed the way the code computes them.                 *)
(***************************************************************************)
EXTENDS Naturals, Sequences, FiniteSets, TLC

VARIABLES
    GITHUB_IGNORE_LABEL, \* value of the module global set at import time
    store,               \* GitHub's side: pull requests / issues by <<owner, repo, id>>
    patches,             \* per pull request, the PATCHes GitHub has applied
    payload,             \* the payload of the last webhook request
    calls,               \* the remote calls the last request made, in order
    status,              \* the HTTP status the last request was answered with
    description,         \* input of the last _qualify_description evaluation
    ignore_list,         \* input of the last _qualify_description evaluation
    qualified            \* its result <<ok, issues>>, or NotEvaluated

vars == <<GITHUB_IGNORE_LABEL, store, patches, payload, calls, status,
          description, ignore_list, qualified>>

----------------------------------------------------------------------------
(* Bounds *)

\* number of link-prefixing PATCHes GitHub applies to one pull request
MaxPatches == 2

\* number of text pieces a description given to _qualify_description is made of
MaxPieces == 3

----------------------------------------------------------------------------
(* Python values *)

\* Python's None, where the other values are str (sequences of characters)
None == <<"<None>">>

\* str(None), as "{}".format(None) renders it
NoneText == <<"N","o","n","e">>

\* a key a dict (JSON object) does not carry
Absent == "<absent>"

\* str.split(sep) for a one-character separator
RECURSIVE Split(_, _)
Split(s, sep) ==
    IF \A i \in 1..Len(s) : s[i] # sep
    THEN <<s>>
    ELSE LET k == CHOOSE i \in 1..Len(s) :
                    s[i] = sep /\ \A j \in 1..(i - 1) : s[j] # sep
         IN  <<SubSeq(s, 1, k - 1)>> \o Split(SubSeq(s, k + 1, Len(s)), sep)

\* str.split(sep, 1): at most one split, at the first separator
SplitOnce(s, sep) ==
    IF \A i \in 1..Len(s) : s[i] # sep
    THEN <<s>>
    ELSE LET k == CHOOSE i \in 1..Len(s) :
                    s[i] = sep /\ \A j \in 1..(i - 1) : s[j] # sep
         IN  <<SubSeq(s, 1, k - 1), SubSeq(s, k + 1, Len(s))>>

\* `sub in s` for two str
Contains(sub, s) ==
    \E i \in 0..(Len(s) - Len(sub)) : SubSeq(s, i + 1, i + Len(sub)) = sub

\* sep.join(parts)
RECURSIVE Join(_, _)
Join(sep, parts) ==
    IF Len(parts) = 0 THEN <<>>
    ELSE IF Len(parts) = 1 THEN parts[1]
    ELSE parts[1] \o sep \o Join(sep, Tail(parts))

\* the builtins any and all over a list of bool
any(bools) == \E i \in 1..Len(bools) : bools[i]
all(bools) == \A i \in 1..Len(bools) : bools[i]

\* "{}".format(v): str(v)
Str(v) == IF v = None THEN NoneText ELSE v

----------------------------------------------------------------------------
(* Rules *)

StoryMarker == <<"s","t","o","r","y",":"," ">>
TodoMarker == <<"-"," ","["," ","]">>

StoryDesc ==
    <<"s","h","o","u","l","d"," ","h","a","v","e"," ",
      "s","t","o","r","y"," ","l","i","n","k">>
TodoDesc ==
    <<"a","l","l"," ","t","o","d","o","s"," ","s","h","o","u","l","d"," ",
      "b","e"," ","d","o","n","e">>

\* the registry, in the order the dict literal inserts its keys
PR_RULES ==
    << [name |-> "story", desc |-> StoryDesc, quantifier |-> "any", fn |-> "has_story"],
       [name |-> "todo",  desc |-> TodoDesc,  quantifier |-> "all", fn |-> "no_open_todo"] >>

RuleNames == {PR_RULES[i].name : i \in 1..Len(PR_RULES)}

\* the two lambdas of the registry
Fn(rule, line) ==
    IF rule.fn = "has_story" THEN Contains(StoryMarker, line)
    ELSE ~Contains(TodoMarker, line)

Quantify(rule, bools) ==
    IF rule.quantifier = "any" THEN any(bools) ELSE all(bools)

validate_any(rule, lines) ==
    IF any([i \in 1..Len(lines) |-> Fn(rule, lines[i])]) THEN None ELSE rule.desc

\* Rule.validate
validate(rule, lines) ==
    IF Quantify(rule, [i \in 1..Len(lines) |-> Fn(rule, lines[i])])
    THEN None
    ELSE rule.desc

\* _yield_rule_adherence, drained into a list
_yield_rule_adherence(rules, lines) ==
    [i \in 1..Len(rules) |-> validate(rules[i], lines)]

\* _qualify_description for a str description and an ignore_list naming
\* registered rules (each name once)
_qualify_description(desc, ignored) ==
    LET lines == Split(desc, "\n")
        rules == SelectSeq(PR_RULES, LAMBDA r : r.name \notin ignored)
        issues == SelectSeq(_yield_rule_adherence(rules, lines),
                            LAMBDA i : i # None)
    IN  << ~any([i \in 1..Len(issues) |-> issues[i] # <<>>]), issues >>

----------------------------------------------------------------------------
(* Configuration and static assets *)

GITHUB_OWNER == <<"k","e","l","v","i","n","t","a","y","w","l">>
GITHUB_REPO == <<"p","u","l","l","_","r","e","q","u","e","s","t","s">>

\* os.getenv('GITHUB_USERNAME'), os.getenv('GITHUB_TOKEN')
GITHUB_USERNAME == "bot"
GITHUB_TOKEN == "secret"

\* values os.getenv('GITHUB_IGNORE_LABEL', 'pr_ignore') can take
IgnoreLabelValues == {"pr_ignore", "skip_checks"}

\* static/good_comment.txt
GoodComment == <<"L","G","T","M">>

\* static/issues.txt: the text before and after its {issues} placeholder
IssuesTemplate ==
    [before |-> <<"I","s","s","u","e","s",":">>, after |-> <<"\n">>]

\* template.format(issues=...)
FormatIssues(template, issues) == template.before \o issues \o template.after

----------------------------------------------------------------------------
(* GitHub, as the client sees it *)

\* how GitHub can answer a request: 2xx with the resource, non-2xx with a
\* JSON error object, non-2xx with a body that is not JSON
AnswerKinds == {"ok", "error", "garbage"}

TargetOf(req) == <<req.owner, req.repo, req.path.id>>

PullView(pr) ==
    [title |-> pr.title, body |-> pr.body, head |-> pr.head, state |-> pr.state]

Patched(pr, data) ==
    [pr EXCEPT !.title = data.title, !.body = data.body, !.state = data.state]

Respond(req, kind, st) ==
    IF kind = "garbage"
    THEN [status |-> 502, is_json |-> FALSE, json |-> [unparsable |-> TRUE]]
    ELSE IF kind = "ok" /\ TargetOf(req) \in DOMAIN st
    THEN LET pr == st[TargetOf(req)] IN
         IF req.method = "get" /\ req.path.resource = "pulls"
         THEN [status |-> 200, is_json |-> TRUE, json |-> PullView(pr)]
         ELSE IF req.method = "patch"
         THEN [status |-> 200, is_json |-> TRUE,
               json |-> PullView(Patched(pr, req.data))]
         ELSE IF req.method = "get"
         THEN [status |-> 200, is_json |-> TRUE,
               json |-> [title |-> pr.title, labels |-> pr.labels]]
         ELSE [status |-> 201, is_json |-> TRUE, json |-> [body |-> req.data.body]]
    ELSE [status |-> 404, is_json |-> TRUE, json |-> [message |-> "Not Found"]]

Is2xx(resp) == resp.status \in {200, 201}

\* what the request leaves behind on GitHub
Apply(req, resp, st) ==
    IF req.method = "patch" /\ Is2xx(resp)
    THEN [st EXCEPT ![TargetOf(req)] = Patched(@, req.data)]
    ELSE st

----------------------------------------------------------------------------
(* Github client *)

Github(api_key, api_secret, owner, repo) ==
    [api_key |-> api_key, api_secret |-> api_secret, owner |-> owner, repo |-> repo]

NoData == [none |-> TRUE]

\* Github.make: the request it sends; it returns the response's .json()
\* whatever the status
make(self, path, method, owner, repo, data) ==
    [method |-> method, owner |-> owner, repo |-> repo, path |-> path,
     data |-> data, auth |-> <<self.api_key, self.api_secret>>]

\* 'pulls/{id}'.format(id=id), 'issues/{id}', 'issues/{id}/comments'
Path(resource, id) == [resource |-> resource, id |-> IF id = Absent THEN "None" ELSE id]

get_pull_request(self, id) ==
    make(self, Path("pulls", id), "get", GITHUB_OWNER, GITHUB_REPO, NoData)

update_pull_request(self, id, title, body, state) ==
    make(self, Path("pulls", id), "patch", GITHUB_OWNER, GITHUB_REPO,
         [title |-> title, body |-> body, state |-> state])

comment_on_pull_request(self, id, comment) ==
    make(self, Path("comments", id), "post", GITHUB_OWNER, GITHUB_REPO,
         [body |-> comment])

get_issue(self, id) ==
    make(self, Path("issues", id), "get", GITHUB_OWNER, GITHUB_REPO, NoData)

----------------------------------------------------------------------------
(* Handlers.  A handler's outcome: the remote calls it made (request and   *)
(* response), GitHub's store afterwards, the evaluation of                 *)
(* _qualify_description it made, and whether it raised.                    *)

NotEvaluated == <<>>
NoQualify == [description |-> None, ignore_list |-> {}, result |-> NotEvaluated]

Call(req, resp) == [request |-> req, response |-> resp]

Outcome(cs, st, q, raised) ==
    [calls |-> cs, store |-> st, qualify |-> q, raised |-> raised, err |-> FALSE]

LinkBase ==
    <<"h","t","t","p","s",":","/","/","p","i","v","o","t","a","l","t","r","a","c",
      "k","e","r",".","c","o","m","/","s","t","o","r","y","/","s","h","o","w","/">>

\* pr['head']['ref'].split('-')[0]
Ticket(ref) == Split(ref, "-")[1]

\* 'https://pivotaltracker.com/story/show/{id}'.format(id=...)
Link(ref) == LinkBase \o Str(Ticket(ref))

StoryBody_unmarked(link, body) == Str(link) \o <<"\r","\n","\n">> \o Str(body)

\* "story: {}\r\n\n{}".format(link, pr['body'])
StoryBody(link, body) ==
    <<"s","t","o","r","y",":"," ">> \o Str(link) \o <<"\r","\n","\n">> \o Str(body)

\* every outcome of the handler, over the ways GitHub can answer its calls
_prefix_story_link_in_pull_request(owner, repo, id, st) ==
    UNION {
      LET g == Github(GITHUB_USERNAME, GITHUB_TOKEN, owner, repo)
          req1 == get_pull_request(g, id)
          resp1 == Respond(req1, a1, st)
          c1 == Call(req1, resp1)
          pr == resp1.json
      IN  IF ~resp1.is_json
          THEN {Outcome(<<c1>>, st, NoQualify, TRUE)}     \* .json() raises
          ELSE IF ~({"title", "head", "body"} \subseteq DOMAIN pr)
          THEN {Outcome(<<c1>>, st, NoQualify, TRUE)}     \* KeyError
          ELSE LET title == pr.title
                   link == Link(pr.head.ref)
                   body == StoryBody(link, pr.body)
                   req2 == update_pull_request(g, id, title, body, "open")
               IN  { LET resp2 == Respond(req2, a2, st)
                     IN  Outcome(<<c1, Call(req2, resp2)>>, Apply(req2, resp2, st),
                                 NoQualify, ~resp2.is_json)
                     : a2 \in AnswerKinds }
      : a1 \in AnswerKinds }

\* '\n- '.join([''] + issues)
issues_printed(issues) == Join(<<"\n","-"," ">>, <<<<>>>> \o issues)

\* every outcome of the handler, over the ways GitHub can answer its calls
_validate_pull_request_description(owner, repo, id, st) ==
    UNION {
      LET g == Github(GITHUB_USERNAME, GITHUB_TOKEN, owner, repo)
          req1 == get_pull_request(g, id)
          resp1 == Respond(req1, a1, st)
          c1 == Call(req1, resp1)
          pr == resp1.json
      IN  IF ~resp1.is_json
          THEN {Outcome(<<c1>>, st, NoQualify, TRUE)}     \* .json() raises
          ELSE IF "body" \notin DOMAIN pr
          THEN {Outcome(<<c1>>, st, NoQualify, TRUE)}     \* KeyError
          ELSE
          UNION {
            LET body == pr.body
                req2 == get_issue(g, id)
                resp2 == Respond(req2, a2, st)
                c2 == Call(req2, resp2)
                issue == resp2.json
            IN  IF ~resp2.is_json
                THEN {Outcome(<<c1, c2>>, st, NoQualify, TRUE)}   \* .json() raises
                ELSE IF "labels" \notin DOMAIN issue
                THEN {Outcome(<<c1, c2>>, st, NoQualify, TRUE)}   \* KeyError
                ELSE
                LET ignored ==
                        IF "pr_ignore" \in {issue.labels[i].name :
                                              i \in 1..Len(issue.labels)}
                        THEN RuleNames
                        ELSE {}
                IN  IF body = None
                    THEN {Outcome(<<c1, c2>>, st, NoQualify, TRUE)} \* None.split
                    ELSE
                    LET result == _qualify_description(body, ignored)
                        q == [description |-> body, ignore_list |-> ignored,
                              result |-> result]
                        comment ==
                            IF result[1]
                            THEN GoodComment
                            ELSE FormatIssues(IssuesTemplate,
                                              issues_printed(result[2]))
                        req3 == comment_on_pull_request(g, id, comment)
                    IN  { LET resp3 == Respond(req3, a3, st)
                          IN  Outcome(<<c1, c2, Call(req3, resp3)>>,
                                      Apply(req3, resp3, st), q, ~resp3.is_json)
                          : a3 \in AnswerKinds }
            : a2 \in AnswerKinds }
      : a1 \in AnswerKinds }

\* _handle_github_pull_request_event: its outcomes; err: it returned the
\* ValueError
_handle_github_pull_request_event(p, st) ==
    LET parts == SplitOnce(p.repo, "/")
        owner == IF p.repo # None THEN parts[1] ELSE GITHUB_OWNER
        repo == IF p.repo # None THEN parts[2] ELSE GITHUB_REPO
        action == p.action
        id == p.number
    IN  IF p.repo # None /\ Len(parts) < 2
        THEN {Outcome(<<>>, st, NoQualify, TRUE)}  \* unpacking one value into two
        ELSE IF p.zen # Absent
        THEN {Outcome(<<>>, st, NoQualify, FALSE)}
        ELSE IF action # Absent
        THEN IF action \in {"opened", "reopened"}
             THEN _prefix_story_link_in_pull_request(owner, repo, id, st)
             ELSE IF action = "edited"
             THEN _validate_pull_request_description(owner, repo, id, st)
             ELSE {Outcome(<<>>, st, NoQualify, FALSE)}
        ELSE {[Outcome(<<>>, st, NoQualify, FALSE) EXCEPT !.err = TRUE]}

\* `not payload`: the parsed JSON object has no key
IsEmptyPayload(p) ==
    p.action = Absent /\ p.zen = Absent /\ p.number = Absent /\ p.repo = None

github_payload_no_abort(p, st) ==
    IF IsEmptyPayload(p)
    THEN {[outcome |-> Outcome(<<>>, st, NoQualify, FALSE), status |-> 400]}
    ELSE {[outcome |-> r, status |-> IF r.raised THEN 500 ELSE 200]
          : r \in _handle_github_pull_request_event(p, st)}

\* github_payload: the dispatcher's outcomes, each with the HTTP status answered
github_payload(p, st) ==
    IF IsEmptyPayload(p)
    THEN {[outcome |-> Outcome(<<>>, st, NoQualify, FALSE), status |-> 400]}
    ELSE {[outcome |-> r, status |-> IF r.raised \/ r.err THEN 500 ELSE 200]
          : r \in _handle_github_pull_request_event(p, st)}

----------------------------------------------------------------------------
(* The inputs *)

OtherOwner == <<"a","c","m","e">>
OtherRepo == <<"a","p","p">>

\* payload['repo']['full_name']: a second repository, and a name without '/'
RepoNames == { <<"a","c","m","e","/","a","p","p">>, <<"n","o","r","e","p","o">> }

PullNumber == "7"

\* the JSON object {}
EmptyPayload == [action |-> Absent, zen |-> Absent, number |-> Absent, repo |-> None]

Payloads ==
    [action : {Absent, "opened", "reopened", "edited", "closed"},
     zen    : {Absent, "Keep it logically awesome."},
     number : {PullNumber},
     repo   : {None} \cup RepoNames]
    \cup {EmptyPayload}

\* pull request bodies on GitHub; a pull request opened without a
\* description has a null body
Bodies ==
    { None,
      <<"F","i","x","e","s"," ","s","t","u","f","f">>,
      <<"-"," ","["," ","]"," ","t","o","d","o"," ","i","t","e","m">>,
      <<"s","t","o","r","y",":"," ","s","\n","A","l","l"," ","d","o","n","e">> }

Refs == { <<"4","2","-","a","d","d","-","x">>, <<"h","o","t","f","i","x">> }

LabelLists == { <<>>, <<[name |-> "pr_ignore"]>>, <<[name |-> "skip_checks"]>> }

DefaultKey == <<GITHUB_OWNER, GITHUB_REPO, PullNumber>>
OtherKey == <<OtherOwner, OtherRepo, PullNumber>>

OtherPull ==
    [title |-> "Other", body |-> <<"o","t","h","e","r">>,
     head |-> [ref |-> <<"9","-","y">>], state |-> "open", labels |-> <<>>]

Stores ==
    { (DefaultKey :> [title |-> "Add X", body |-> b, head |-> [ref |-> r],
                      state |-> "open", labels |-> l])
      @@ (OtherKey :> OtherPull) : b \in Bodies, r \in Refs, l \in LabelLists }

Pieces ==
    { StoryMarker, TodoMarker, <<"\n">>, <<"x">>, <<" ">>,
      <<"s","t","o","r","y",":">>, <<"-"," ","[">>, <<" ","]">> }

RECURSIVE Flatten(_)
Flatten(ps) == IF Len(ps) = 0 THEN <<>> ELSE Head(ps) \o Flatten(Tail(ps))

Descriptions ==
    { Flatten(ps) : ps \in UNION { [1..n -> Pieces] : n \in 0..MaxPieces } }

----------------------------------------------------------------------------
(* The webhook server *)

Init ==
    /\ GITHUB_IGNORE_LABEL \in IgnoreLabelValues
    /\ store \in Stores
    /\ patches = [k \in {DefaultKey, OtherKey} |-> 0]
    /\ payload = EmptyPayload
    /\ calls = <<>>
    /\ status = 0
    /\ description = None
    /\ ignore_list = {}
    /\ qualified = NotEvaluated

IsAppliedPatch(c) == c.request.method = "patch" /\ Is2xx(c.response)

\* the PATCHes of an outcome that GitHub applied, per pull request
Applied(o) ==
    [k \in {DefaultKey, OtherKey} |->
        Cardinality({i \in 1..Len(o.calls) :
                       /\ IsAppliedPatch(o.calls[i])
                       /\ TargetOf(o.calls[i].request) = k})]

\* POST /github/payload, over every payload and every way GitHub can answer
WebhookRequest ==
    \E p \in Payloads :
        \E r \in github_payload(p, store) :
            \E applied \in {Applied(r.outcome)} :
                /\ \A k \in DOMAIN patches : patches[k] + applied[k] <= MaxPatches
                /\ payload' = p
                /\ calls' = r.outcome.calls
                /\ status' = r.status
                /\ store' = r.outcome.store
                /\ patches' = [k \in DOMAIN patches |-> patches[k] + applied[k]]
                /\ description' = r.outcome.qualify.description
                /\ ignore_list' = r.outcome.qualify.ignore_list
                /\ qualified' = r.outcome.qualify.result
                /\ UNCHANGED GITHUB_IGNORE_LABEL

Next == WebhookRequest

Spec == Init /\ [][Next]_vars

----------------------------------------------------------------------------
(* _qualify_description on its own: every description made of at most      *)
(* MaxPieces pieces, every set of registered rule names to ignore          *)

InitQualify ==
    /\ GITHUB_IGNORE_LABEL = "pr_ignore"
    /\ store = (DefaultKey :> OtherPull) @@ (OtherKey :> OtherPull)
    /\ patches = [k \in {DefaultKey, OtherKey} |-> 0]
    /\ payload = EmptyPayload
    /\ calls = <<>>
    /\ status = 0
    /\ description \in Descriptions
    /\ ignore_list \in SUBSET RuleNames
    /\ qualified = NotEvaluated

Qualify ==
    /\ qualified = NotEvaluated
    /\ qualified' = _qualify_description(description, ignore_list)
    /\ UNCHANGED <<GITHUB_IGNORE_LABEL, store, patches, payload, calls, status,
                   description, ignore_list>>

NextQualify == Qualify

SpecQualify == InitQualify /\ [][NextQualify]_vars

----------------------------------------------------------------------------
(* Claims *)

\* the lines of a text: its maximal segments free of "\n"
LinesOf(d) ==
    { SubSeq(d, i, j) : <<i, j>> \in
        { ij \in (1..(Len(d) + 1)) \X (0..Len(d)) :
            /\ ij[1] <= ij[2] + 1
            /\ \A k \in ij[1]..ij[2] : d[k] # "\n"
            /\ (ij[1] = 1 \/ d[ij[1] - 1] = "\n")
            /\ (ij[2] = Len(d) \/ d[ij[2] + 1] = "\n") } }

StoryFails(d, excluded) ==
    "story" \notin excluded /\ ~\E l \in LinesOf(d) : Contains(StoryMarker, l)

TodoFails(d, excluded) ==
    "todo" \notin excluded /\ \E l \in LinesOf(d) : Contains(TodoMarker, l)

ExpectedViolations(d, excluded) ==
    (IF StoryFails(d, excluded) THEN <<StoryDesc>> ELSE <<>>)
    \o (IF TodoFails(d, excluded) THEN <<TodoDesc>> ELSE <<>>)

----------------------------------------------------------------------------
(* The webhook claims are about the last request handled *)

Handled == status # 0

\* the part of s before its first ch (all of s when it has none)
PrefixBefore(s, ch) ==
    LET at == {i \in 1..Len(s) : s[i] = ch}
    IN  IF at = {} THEN s
        ELSE SubSeq(s, 1, (CHOOSE i \in at : \A j \in at : i <= j) - 1)

\* the rest of s after its first ch
RestAfter(s, ch) ==
    LET at == {i \in 1..Len(s) : s[i] = ch}
    IN  SubSeq(s, (CHOOSE i \in at : \A j \in at : i <= j) + 1, Len(s))

HasSlash(s) == \E i \in 1..Len(s) : s[i] = "/"

\* the dispatcher hands the payload to one of the two handlers
HandedTo(actions) ==
    /\ Handled
    /\ payload.zen = Absent
    /\ payload.action \in actions
    /\ (payload.repo = None \/ HasSlash(payload.repo))

IsGet(c, resource) ==
    /\ c.request.method = "get"
    /\ c.request.path = [resource |-> resource, id |-> payload.number]

IsPatch(c) == c.request.method = "patch"
IsComment(c) == c.request.method = "post"

NoPatch == \A i \in 1..Len(calls) : ~IsPatch(calls[i])
NoComment == \A i \in 1..Len(calls) : ~IsComment(calls[i])

\* the first call fetched the pull request and GitHub answered 2xx
FetchedPull ==
    /\ Len(calls) >= 1
    /\ IsGet(calls[1], "pulls")
    /\ Is2xx(calls[1].response)

StoryLinkLine(ref) ==
    <<"s","t","o","r","y",":"," ">> \o LinkBase \o PrefixBefore(ref, "-")

\* the PATCH the claim describes, for a fetched pull request and the text its
\* body is carried over as
IsStoryPatch(c, pr, carried) ==
    /\ IsPatch(c)
    /\ c.request.path = [resource |-> "pulls", id |-> payload.number]
    /\ c.request.data.title = pr.title
    /\ c.request.data.state = "open"
    /\ c.request.data.body =
           StoryLinkLine(pr.head.ref) \o <<"\r","\n","\n">> \o carried

\* C2: every opened or reopened event whose fetch of the pull request GitHub
\* answers 2xx then issues exactly one PATCH for that pull request id, with
\* the fetched title, state "open" and body "story: https://pivotaltracker.com
\* /story/show/<ticket>" + "\r\n\n" + the fetched body unchanged, <ticket> the
\* part of head.ref before its first "-"; no comment is posted.
C2_StoryPatch ==
    (HandedTo({"opened", "reopened"}) /\ FetchedPull) =>
        /\ Len(calls) = 2
        /\ IsStoryPatch(calls[2], calls[1].response.json,
                        calls[1].response.json.body)
        /\ NoComment

\* what the handler does instead: the fetched body goes through str(), so a
\* null body is carried over as the text "None"; a fetch that is not answered
\* 2xx is followed by no call
StoryPatchIssued ==
    HandedTo({"opened", "reopened"}) =>
        /\ Len(calls) >= 1
        /\ IsGet(calls[1], "pulls")
        /\ NoComment
        /\ IF Is2xx(calls[1].response)
           THEN LET pr == calls[1].response.json
                IN  /\ Len(calls) = 2
                    /\ IsStoryPatch(calls[2], pr,
                                    IF pr.body = None THEN NoneText ELSE pr.body)
           ELSE Len(calls) = 1

\* a reopened pull request whose branch has a ticket prefix, patched
StoryPatchReached ==
    /\ HandedTo({"reopened"})
    /\ FetchedPull
    /\ Len(calls) = 2
    /\ IsAppliedPatch(calls[2])
    /\ calls[1].response.json.head.ref = <<"4","2","-","a","d","d","-","x">>
    /\ calls[1].response.json.body = <<"F","i","x","e","s"," ","s","t","u","f","f">>
    /\ status = 200

----------------------------------------------------------------------------

\* the violations as a bullet list: an empty first line, then one
\* "- <violation>" line each
RECURSIVE Bullets(_)
Bullets(vs) ==
    IF vs = <<>> THEN <<>>
    ELSE <<"\n">> \o <<"-"," ">> \o Head(vs) \o Bullets(Tail(vs))

\* the comment the claim describes for a description and an exclusion set
ExpectedComment(d, excluded) ==
    IF ExpectedViolations(d, excluded) = <<>>
    THEN GoodComment
    ELSE IssuesTemplate.before \o Bullets(ExpectedViolations(d, excluded))
         \o IssuesTemplate.after

\* both fetches of an edited event were answered 2xx
FetchedPullAndIssue ==
    /\ FetchedPull
    /\ Len(calls) >= 2
    /\ IsGet(calls[2], "issues")
    /\ Is2xx(calls[2].response)

IsCommentOn(c, text) ==
    /\ IsComment(c)
    /\ c.request.path = [resource |-> "comments", id |-> payload.number]
    /\ c.request.data.body = text

\* C3: every edited event whose fetches of the pull request and of the issue
\* GitHub answers 2xx posts exactly one comment on that pull request and
\* issues no PATCH: the "good" comment verbatim iff the fetched body qualifies
\* under the label-derived exclusion set, otherwise the "issues" template with
\* its placeholder replaced by an empty first line and one "- <violation>"
\* line per violation, in registry order.
C3_Comment ==
    (HandedTo({"edited"}) /\ FetchedPullAndIssue) =>
        /\ NoPatch
        /\ Len(calls) = 3
        /\ description = calls[1].response.json.body
        /\ IsCommentOn(calls[3], ExpectedComment(description, ignore_list))

\* what the handler does instead: a null body has no split, so the handler
\* raises after the two fetches and posts nothing
CommentPosted ==
    HandedTo({"edited"}) =>
        /\ NoPatch
        /\ IF FetchedPullAndIssue /\ calls[1].response.json.body # None
           THEN /\ Len(calls) = 3
                /\ description = calls[1].response.json.body
                /\ ignore_list \in {{}, RuleNames}
                /\ IsCommentOn(calls[3], ExpectedComment(description, ignore_list))
           ELSE NoComment

\* an edited pull request with no story link and an open todo: both bullets
BothBulletsReached ==
    /\ HandedTo({"edited"})
    /\ Len(calls) = 3
    /\ qualified = <<FALSE, <<StoryDesc, TodoDesc>>>>
    /\ calls[3].request.data.body =
           IssuesTemplate.before
           \o <<"\n","-"," ">> \o StoryDesc \o <<"\n","-"," ">> \o TodoDesc
           \o IssuesTemplate.after

----------------------------------------------------------------------------

LabelNames(issue) == {issue.labels[i].name : i \in 1..Len(issue.labels)}

\* C4: for an edited event whose comment was posted, and whatever the
\* configured ignore-label is: a label of the fetched issue equal to the
\* configured ignore-label excludes every rule, so the "good" comment is
\* posted; no such label excludes none, so every rule is evaluated.
C4_ConfiguredIgnoreLabel ==
    (HandedTo({"edited"}) /\ Len(calls) = 3) =>
        IF GITHUB_IGNORE_LABEL \in LabelNames(calls[2].response.json)
        THEN /\ ignore_list = RuleNames
             /\ qualified[1]
             /\ calls[3].request.data.body = GoodComment
        ELSE /\ ignore_list = {}
             /\ qualified[2] = ExpectedViolations(description, {})

----------------------------------------------------------------------------

\* C5 as claimed: every parsed payload with no action field and no zen field
\* is answered with HTTP 500, and no remote call is made.
C5_AsClaimed ==
    (Handled /\ payload.action = Absent /\ payload.zen = Absent) =>
        /\ status = 500
        /\ calls = <<>>

\* C5, amended: every parsed payload that is not the empty object and has no
\* action field and no zen field is answered with HTTP 500, and no remote call
\* is made; the empty object is answered with HTTP 400, with no remote call.
C5_NoAction ==
    (Handled /\ payload.action = Absent /\ payload.zen = Absent) =>
        /\ calls = <<>>
        /\ status = IF payload = EmptyPayload THEN 400 ELSE 500

\* a payload carrying only a number and a well-formed repository name
C5_Witness ==
    /\ Handled
    /\ payload.action = Absent /\ payload.zen = Absent
    /\ payload.number = PullNumber
    /\ payload.repo # None /\ HasSlash(payload.repo)
    /\ status = 500

----------------------------------------------------------------------------

\* C6: every payload without zen whose action is none of opened, reopened and
\* edited makes no remote call and is answered with HTTP 200.
C6_OtherAction ==
    (Handled /\ payload.zen = Absent
       /\ payload.action \notin {Absent, "opened", "reopened", "edited"}) =>
        /\ calls = <<>>
        /\ status = 200

\* C7: every payload with zen present, whatever its other fields hold, makes
\* no remote call and is answered with HTTP 200.
C7_Ping ==
    (Handled /\ payload.zen # Absent) =>
        /\ calls = <<>>
        /\ status = 200

\* C8: every remote call of a request is addressed to the owner and repo
\* before and after the first "/" of the payload's repo.full_name when the
\* payload carries one, and to the configured default owner and repo only
\* when it carries none.
C8_Routing ==
    \A i \in 1..Len(calls) :
        IF payload.repo # None
        THEN /\ calls[i].request.owner = PrefixBefore(payload.repo, "/")
             /\ calls[i].request.repo = RestAfter(payload.repo, "/")
        ELSE /\ calls[i].request.owner = GITHUB_OWNER
             /\ calls[i].request.repo = GITHUB_REPO

\* C9: a remote call answered non-2xx fails, so it is the last call of its
\* request and the request is not answered with HTTP 200.
C9_RemoteError ==
    \A i \in 1..Len(calls) :
        ~Is2xx(calls[i].response) => (i = Len(calls) /\ status # 200)

----------------------------------------------------------------------------

\* C10: once GitHub has applied the PATCH of an opened or reopened event to a
\* pull request, the first line of its body contains "story: ", through every
\* later opened, reopened or edited event; each applied PATCH keeps the body
\* it fetched as a suffix; and a comment posted by an edited event on such a
\* pull request never reports "should have story link".
C10_StoryLinkStays ==
    /\ \A k \in DOMAIN store :
          patches[k] > 0 =>
              /\ store[k].body # None
              /\ Contains(StoryMarker, PrefixBefore(store[k].body, "\n"))
    /\ \A i \in 1..Len(calls) :
          IsAppliedPatch(calls[i]) =>
              LET old == Str(calls[1].response.json.body)
                  new == store[TargetOf(calls[i].request)].body
              IN  /\ Len(new) > Len(old)
                  /\ SubSeq(new, Len(new) - Len(old) + 1, Len(new)) = old
    /\ \A i \in 1..Len(calls) :
          (IsComment(calls[i]) /\ patches[TargetOf(calls[i].request)] > 0) =>
              /\ ~Contains(StoryDesc, calls[i].request.data.body)
              /\ \A j \in 1..Len(qualified[2]) : qualified[2][j] # StoryDesc

\* an edited event after a PATCH, reporting the open todo alone
C10_Witness ==
    /\ HandedTo({"edited"})
    /\ Len(calls) = 3
    /\ patches[TargetOf(calls[3].request)] = MaxPatches
    /\ qualified = <<FALSE, <<TodoDesc>>>>
    /\ ignore_list = {}

====
